---- MODULE Spec2Model ----
(***************************************************************************)
(* python-desfire: the PC/SC command transceiver (devices/pcsc.py) and the *)
(* file-settings decoder (schemas/file_settings.py).                       *)
(*                                                                         *)
(* Two sibling components that never call each other.  Each has its own    *)
(* specification: SpecPCSC drives PCSCDevice.transceive against a channel, *)
(* SpecFS drives FileSettings.parse on FileSettings objects.               *)
(***************************************************************************)
EXTENDS Integers, Sequences, FiniteSets

VARIABLES
    hcard,      \* card_connection.hcard is truthy (the connection is open)
    scard,      \* what SCardTransmit answers on this channel: [hresult, response]
    bytes,      \* the `bytes` argument of the last transceive call
    openAtCall, \* whether the connection was open when that call was made
    sent,       \* the APDUs the last transceive call handed to SCardTransmit
    outcome,    \* how the last transceive call ended ("none" before any call)
    ret,        \* the list the last transceive call returned (<<>> if it raised)
    detail,     \* the value the raised exception's message reports
    fs,         \* the attributes of a FileSettings object
    data,       \* the `data` argument of the last parse call
    fsOutcome,  \* how the last parse call ended ("none" before any call)
    fsDetail,   \* the value the raised exception's message reports
    parses      \* parse calls made on the current FileSettings object

pcscVars == <<hcard, scard, bytes, openAtCall, sent, outcome, ret, detail>>
fsVars   == <<fs, data, fsOutcome, fsDetail, parses>>
vars     == <<hcard, scard, bytes, openAtCall, sent, outcome, ret, detail,
              fs, data, fsOutcome, fsDetail, parses>>

----------------------------------------------------------------------------
(* Bounds of the model *)

\* longest command payload (bytes[1:]) the caller sends
MaxPayload == 2
\* longest response body the card sends before SW1 SW2
MaxBody == 2

(* Program constants *)

\* class byte of the wrapping APDU
CLA == 144
\* SW1 that announces a native status in SW2
SW1_NATIVE == 145
\* hresult of a successful SCardTransmit
SCARD_S_SUCCESS == 0

Byte == 0 .. 255

\* every sequence over S of length 0 .. n
SeqsUpTo(S, n) == UNION {[1 .. k -> S] : k \in 0 .. n}

----------------------------------------------------------------------------
(* PCSCDevice.transceive *)

\* Python's bytes[1:] : everything after the first element, [] for [].
Rest(s) == IF Len(s) = 0 THEN <<>> ELSE Tail(s)

\* mutant: the trailing Le byte is appended whatever the payload length
BuildApdu_AlwaysLe(b) ==
    <<CLA, b[1], 0, 0, Len(Rest(b))>> \o Rest(b) \o <<0>>

\* line 47, for a non-empty command
BuildApdu(b) ==
    <<CLA, b[1], 0, 0, Len(Rest(b))>> \o Rest(b)
        \o (IF Len(Rest(b)) > 0 THEN <<0>> ELSE <<>>)

\* mutant: SW2 is moved to the front but only one trailing byte is dropped
Unwrap_KeepSW1(r) == <<r[Len(r)]>> \o SubSeq(r, 1, Len(r) - 1)

\* mutant: the status bytes are stripped and SW2 is dropped with them
Unwrap_DropSW2(r) == SubSeq(r, 1, Len(r) - 2)

\* line 63: [response[-1]] + response[:-2]
Unwrap(r) == <<r[Len(r)]>> \o SubSeq(r, 1, Len(r) - 2)

\* mutant: the status word is inspected before the result code
Classify_SW1First(h, r) ==
    IF Len(r) >= 2 /\ r[Len(r) - 1] # SW1_NATIVE
      THEN [outcome |-> "UnexpectedStatusWord", detail |-> r[Len(r) - 1]]
    ELSE IF h # SCARD_S_SUCCESS
      THEN [outcome |-> "TransmitFailure", detail |-> h]
    ELSE IF Len(r) < 2
      THEN [outcome |-> "MalformedResponse", detail |-> Len(r)]
    ELSE [outcome |-> "ok", detail |-> 0]

\* lines 50-62: the three checks on what SCardTransmit returned, in order
Classify(h, r) ==
    IF h # SCARD_S_SUCCESS
      THEN [outcome |-> "TransmitFailure", detail |-> h]
    ELSE IF Len(r) < 2
      THEN [outcome |-> "MalformedResponse", detail |-> Len(r)]
    ELSE IF r[Len(r) - 1] # SW1_NATIVE
      THEN [outcome |-> "UnexpectedStatusWord", detail |-> r[Len(r) - 1]]
    ELSE [outcome |-> "ok", detail |-> 0]

\* the call after the open check and the frame construction: lines 49-65
Exchange(b, reply) ==
    LET c == Classify(reply.hresult, reply.response)
    IN  [outcome |-> c.outcome,
         detail  |-> c.detail,
         sent    |-> <<BuildApdu(b)>>,
         ret     |-> IF c.outcome = "ok" THEN Unwrap(reply.response) ELSE <<>>]

\* mutant: the hcard guard of line 39 is missing
transceive_NoOpenCheck(open, b, reply) ==
    IF Len(b) = 0
      THEN [outcome |-> "IndexError", detail |-> 0, sent |-> <<>>, ret |-> <<>>]
    ELSE Exchange(b, reply)

\* mutant: a failed transmit is tried once more
transceive_Retry(open, b, reply) ==
    IF ~open
      THEN [outcome |-> "ChannelNotOpen", detail |-> 0, sent |-> <<>>, ret |-> <<>>]
    ELSE IF Len(b) = 0
      THEN [outcome |-> "IndexError", detail |-> 0, sent |-> <<>>, ret |-> <<>>]
    ELSE LET x == Exchange(b, reply)
         IN  IF x.outcome = "TransmitFailure"
               THEN [x EXCEPT !.sent = x.sent \o x.sent]
               ELSE x

\* lines 39-65.  open: card_connection.hcard is truthy; b: the command;
\* reply: what SCardTransmit returns when it is called.
\* An empty command raises IndexError at bytes[0] (line 47), before line 49.
transceive(open, b, reply) ==
    IF ~open
      THEN [outcome |-> "ChannelNotOpen", detail |-> 0, sent |-> <<>>, ret |-> <<>>]
    ELSE IF Len(b) = 0
      THEN [outcome |-> "IndexError", detail |-> 0, sent |-> <<>>, ret |-> <<>>]
    ELSE Exchange(b, reply)

----------------------------------------------------------------------------
(* Inputs of the transceiver *)

\* bytes the caller puts in commands: 0xF5 (get file settings) and 0x00
CommandBytes == {245, 0}
\* bytes the card puts in response bodies and in SW2
CardBytes == {0, 145}
\* a failing (nonzero) hresult
FailCodes == {12}

Commands == SeqsUpTo(CommandBytes, MaxPayload + 1)

\* SW1 values sent after a non-empty body: the native one, its two
\* neighbours 0x90 and 0x92, 0x00 and 0xFF
SW1Samples == {SW1_NATIVE, 144, 146, 0, 255}

\* responses of fewer than two bytes, body + SW1 + SW2 with a sampled SW1,
\* and a bare SW1 SW2 with every byte value as SW1
Responses ==
    SeqsUpTo(CardBytes, 1)
      \cup {b \o <<s1, s2>> : b \in SeqsUpTo(CardBytes, MaxBody),
                              s1 \in SW1Samples, s2 \in CardBytes}
      \cup {<<s1, s2>> : s1 \in Byte, s2 \in CardBytes}

\* what SCardTransmit can answer: a result code and response bytes
Replies ==
    {[hresult |-> h, response |-> r] :
        h \in {SCARD_S_SUCCESS} \cup FailCodes, r \in Responses}

----------------------------------------------------------------------------
(* enums.py and file_permissions.py: the collaborators of FileSettings *)

\* Python's None, for the attributes that hold an enum member
None == -1

\* DESFireFileType members
MDFT_STANDARD_DATA_FILE == 0
MDFT_BACKUP_DATA_FILE == 1
MDFT_VALUE_FILE_WITH_BACKUP == 2
MDFT_LINEAR_RECORD_FILE_WITH_BACKUP == 3
MDFT_CYCLIC_RECORD_FILE_WITH_BACKUP == 4
MDFT_TRANSACTION_MAC_FILE == 5

\* DESFireFileType(x) raises ValueError unless x is one of these
DESFireFileType ==
    {MDFT_STANDARD_DATA_FILE, MDFT_BACKUP_DATA_FILE, MDFT_VALUE_FILE_WITH_BACKUP,
     MDFT_LINEAR_RECORD_FILE_WITH_BACKUP, MDFT_CYCLIC_RECORD_FILE_WITH_BACKUP,
     MDFT_TRANSACTION_MAC_FILE}

\* DESFireCommunicationMode(x) raises ValueError unless x is one of these:
\* plain, MAC, encrypted
DESFireCommunicationMode == {0, 1, 3}

\* FilePermissions(): <<change, read_write, write, read>> key numbers
FilePermissions == <<0, 0, 0, 0>>

\* FilePermissions.parse on two bytes: four nibbles, bits 0-3 first
PermissionsParse(p) ==
    <<p[1] % 16, p[1] \div 16, p[2] % 16, p[2] \div 16>>

----------------------------------------------------------------------------
(* FileSettings *)

\* FileSettings(): every argument at its default
FreshFS ==
    [encryption |-> None, file_type |-> None, permissions |-> <<>>,
     file_size |-> 0, lower_limit |-> 0, upper_limit |-> 0, value |-> 0,
     limited_credit_value |-> 0, limited_credit_enabled |-> FALSE,
     record_count |-> 0, max_record_count |-> 0]

Min(a, b) == IF a < b THEN a ELSE b

\* Python's d[i:j] (0-based, end clipped to the length, never an error)
Slice(d, i, j) == SubSeq(d, i + 1, Min(j, Len(d)))

\* mutant: the four bytes are read most significant first
Unpack_BigEndian(b) == b[4] + 256 * b[3] + 65536 * b[2] + 16777216 * b[1]

\* struct.unpack("<I", bytes(b))[0] for a four-byte b
Unpack(b) == b[1] + 256 * b[2] + 65536 * b[3] + 16777216 * b[4]

Raise(obj, kind, what) == [obj |-> obj, outcome |-> kind, detail |-> what]
Return(obj) == [obj |-> obj, outcome |-> "ok", detail |-> 0]

\* lines 87-89: file_size from data[4:7] + [0x00]
ParseDataTail(s, d) ==
    LET b == Slice(d, 4, 7) \o <<0>>
    IN  IF Len(b) # 4 THEN Raise(s, "struct.error", Len(b))
        ELSE Return([s EXCEPT !.file_size = Unpack(b)])

\* lines 90-94: three 4-byte limits, then data[16]
ParseValueTail(s, d) ==
    LET b1 == Slice(d, 4, 8)
        b2 == Slice(d, 8, 12)
        b3 == Slice(d, 12, 16)
    IN  IF Len(b1) # 4 THEN Raise(s, "struct.error", Len(b1))
        ELSE LET s1 == [s EXCEPT !.lower_limit = Unpack(b1)]
             IN  IF Len(b2) # 4 THEN Raise(s1, "struct.error", Len(b2))
        ELSE LET s2 == [s1 EXCEPT !.upper_limit = Unpack(b2)]
             IN  IF Len(b3) # 4 THEN Raise(s2, "struct.error", Len(b3))
        ELSE LET s3 == [s2 EXCEPT !.limited_credit_value = Unpack(b3)]
             IN  IF Len(d) < 17 THEN Raise(s3, "IndexError", 16)
        ELSE Return([s3 EXCEPT !.limited_credit_enabled = (d[17] # 0)])

\* mutant: max_record_count and record_count read each other's span
ParseRecordTail_Swapped(s, d) ==
    LET b1 == Slice(d, 4, 7) \o <<0>>
        b2 == Slice(d, 7, 10) \o <<0>>
        b3 == Slice(d, 10, 13) \o <<0>>
    IN  IF Len(b1) # 4 THEN Raise(s, "struct.error", Len(b1))
        ELSE LET s1 == [s EXCEPT !.file_size = Unpack(b1)]
             IN  IF Len(b2) # 4 THEN Raise(s1, "struct.error", Len(b2))
        ELSE LET s2 == [s1 EXCEPT !.record_count = Unpack(b2)]
             IN  IF Len(b3) # 4 THEN Raise(s2, "struct.error", Len(b3))
        ELSE Return([s2 EXCEPT !.max_record_count = Unpack(b3)])

\* lines 95-98: three 3-byte values, each padded with [0x00]
ParseRecordTail(s, d) ==
    LET b1 == Slice(d, 4, 7) \o <<0>>
        b2 == Slice(d, 7, 10) \o <<0>>
        b3 == Slice(d, 10, 13) \o <<0>>
    IN  IF Len(b1) # 4 THEN Raise(s, "struct.error", Len(b1))
        ELSE LET s1 == [s EXCEPT !.file_size = Unpack(b1)]
             IN  IF Len(b2) # 4 THEN Raise(s1, "struct.error", Len(b2))
        ELSE LET s2 == [s1 EXCEPT !.max_record_count = Unpack(b2)]
             IN  IF Len(b3) # 4 THEN Raise(s2, "struct.error", Len(b3))
        ELSE Return([s2 EXCEPT !.record_count = Unpack(b3)])

\* lines 87-101: the branch on self.file_type
ParseTail(s, d) ==
    IF s.file_type \in {MDFT_STANDARD_DATA_FILE, MDFT_BACKUP_DATA_FILE}
      THEN ParseDataTail(s, d)
    ELSE IF s.file_type = MDFT_VALUE_FILE_WITH_BACKUP
      THEN ParseValueTail(s, d)
    ELSE IF s.file_type \in {MDFT_CYCLIC_RECORD_FILE_WITH_BACKUP,
                             MDFT_LINEAR_RECORD_FILE_WITH_BACKUP}
      THEN ParseRecordTail(s, d)
    ELSE Raise(s, "NotImplementedError", d[1])

\* lines 82-101: FileSettings.parse on the object s, statement by statement.
\* obj is the object as the call leaves it, whether it returns or raises.
parse(s, d) ==
    IF Len(d) < 1 THEN Raise(s, "IndexError", 0)
    ELSE IF d[1] \notin DESFireFileType THEN Raise(s, "ValueError", d[1])
    ELSE LET s1 == [s EXCEPT !.file_type = d[1]]
         IN  IF Len(d) < 2 THEN Raise(s1, "IndexError", 1)
    ELSE IF d[2] \notin DESFireCommunicationMode THEN Raise(s1, "ValueError", d[2])
    ELSE LET s2 == [s1 EXCEPT !.encryption = d[2], !.permissions = FilePermissions]
             p  == Slice(d, 2, 4)
         IN  IF Len(p) < 2 THEN Raise(s2, "IndexError", Len(p))
    ELSE ParseTail([s2 EXCEPT !.permissions = PermissionsParse(p)], d)

----------------------------------------------------------------------------
(* Inputs of the decoder *)

\* parse calls made on one FileSettings object
MaxParses == 2
\* longest buffer handed to parse
MaxDataLen == 18

\* permissions and variant bytes (offsets 2 ..) of two card answers
TailA == <<0, 35,  8, 0, 0, 16,  39, 0, 5, 0,  2, 0, 3, 127,  1,  0, 0, 0, 0, 0>>
TailB == <<225, 15,  0, 0, 64, 0,  1, 0, 0, 0,  255, 255, 255, 0,  0,  7, 0, 0, 0, 0>>

\* discriminant, communication mode and tail of the answers decoded
Answers ==
    {<<0, 3>> \o TailA, <<1, 0>> \o TailB, <<2, 3>> \o TailA, <<2, 1>> \o TailB,
     <<3, 0>> \o TailA, <<4, 3>> \o TailB, <<5, 3>> \o TailA, <<6, 3>> \o TailA,
     <<0, 2>> \o TailA, <<5, 2>> \o TailB}

\* every answer, whole or cut short
DataSet == {SubSeq(a, 1, n) : a \in Answers, n \in 0 .. MaxDataLen}

----------------------------------------------------------------------------
(* Transceiver: state and actions *)

InitPCSCVars ==
    /\ hcard \in BOOLEAN
    /\ scard \in Replies
    /\ bytes = <<>>
    /\ openAtCall = FALSE
    /\ sent = <<>>
    /\ outcome = "none"
    /\ ret = <<>>
    /\ detail = 0

InitFSVars ==
    /\ fs = FreshFS
    /\ data = <<>>
    /\ fsOutcome = "none"
    /\ fsDetail = 0
    /\ parses = 0

\* card_connection.connect(), made by the caller before any DESFire API
Connect ==
    /\ ~hcard
    /\ hcard' = TRUE
    /\ UNCHANGED <<scard, bytes, openAtCall, sent, outcome, ret, detail>>
    /\ UNCHANGED fsVars

\* card_connection.disconnect(), made by the caller
Disconnect ==
    /\ hcard
    /\ hcard' = FALSE
    /\ UNCHANGED <<scard, bytes, openAtCall, sent, outcome, ret, detail>>
    /\ UNCHANGED fsVars

\* device.transceive(b): one whole call
Transceive(b) ==
    LET x == transceive(hcard, b, scard)
    IN  /\ bytes' = b
        /\ openAtCall' = hcard
        /\ sent' = x.sent
        /\ outcome' = x.outcome
        /\ ret' = x.ret
        /\ detail' = x.detail
        /\ UNCHANGED <<hcard, scard>>
        /\ UNCHANGED fsVars

InitPCSC == InitPCSCVars /\ InitFSVars

NextPCSC ==
    \/ Connect
    \/ Disconnect
    \/ \E b \in Commands : Transceive(b)

SpecPCSC == InitPCSC /\ [][NextPCSC]_vars

----------------------------------------------------------------------------
(* Decoder: state and actions *)

\* settings = FileSettings()
NewFileSettings ==
    /\ fs' = FreshFS
    /\ data' = <<>>
    /\ fsOutcome' = "none"
    /\ fsDetail' = 0
    /\ parses' = 0
    /\ UNCHANGED pcscVars

\* settings.parse(d): one whole call, on the object as earlier calls left it
Parse(d) ==
    /\ parses < MaxParses
    /\ LET x == parse(fs, d)
       IN  /\ fs' = x.obj
           /\ fsOutcome' = x.outcome
           /\ fsDetail' = x.detail
    /\ data' = d
    /\ parses' = parses + 1
    /\ UNCHANGED pcscVars

InitFS ==
    /\ InitFSVars
    /\ hcard = FALSE
    /\ scard = [hresult |-> SCARD_S_SUCCESS, response |-> <<>>]
    /\ bytes = <<>>
    /\ openAtCall = FALSE
    /\ sent = <<>>
    /\ outcome = "none"
    /\ ret = <<>>
    /\ detail = 0

NextFS ==
    \/ NewFileSettings
    \/ \E d \in DataSet : Parse(d)

SpecFS == InitFS /\ [][NextFS]_vars

----------------------------------------------------------------------------
(* Properties of the transceiver, checked under SpecPCSC *)

\* the raw response of the last call, its SW1 and SW2
response == scard.response
SW1 == response[Len(response) - 1]
SW2 == response[Len(response)]

\* the last step was a transceive call that reached SCardTransmit's caller
\* side: the connection was open and the command had an instruction byte
CalledOpen == outcome # "none" /\ openAtCall /\ Len(bytes) > 0

\* C1: when the transmit succeeds and the response has at least two bytes
\* with SW1 = 0x91, the returned list is SW2 followed by the response without
\* its last two bytes: non-empty, one byte shorter than the response.
C1_NativeResponse ==
    (/\ CalledOpen
     /\ scard.hresult = SCARD_S_SUCCESS
     /\ Len(response) >= 2
     /\ SW1 = 145)
    => /\ outcome = "ok"
       /\ Len(ret) = Len(response) - 1
       /\ Len(ret) >= 1
       /\ ret[1] = SW2
       /\ \A i \in 1 .. Len(response) - 2 : ret[i + 1] = response[i]

\* a call returned a native response with a body of two bytes
C1_Witness ==
    /\ CalledOpen
    /\ scard.hresult = SCARD_S_SUCCESS
    /\ Len(response) = 4
    /\ SW1 = 145
    /\ outcome = "ok"
    /\ Len(ret) = 3

\* C2: the frame handed to SCardTransmit is 0x90, INS, 0, 0, Lc, the payload
\* unchanged, and one trailing 0x00 exactly when the payload is non-empty.
C2_TransportFrame ==
    CalledOpen =>
       /\ Len(sent) = 1
       /\ LET apdu == sent[1]
              n    == Len(bytes) - 1
          IN  /\ Len(apdu) = 5 + n + (IF n > 0 THEN 1 ELSE 0)
              /\ SubSeq(apdu, 1, 5) = <<144, bytes[1], 0, 0, n>>
              /\ \A i \in 1 .. n : apdu[5 + i] = bytes[1 + i]
              /\ n > 0 => apdu[Len(apdu)] = 0

\* a command with a two-byte payload of different bytes was framed
C2_Witness ==
    /\ CalledOpen
    /\ Len(bytes) = 3
    /\ bytes[2] # bytes[3]
    /\ Len(sent) = 1
    /\ Len(sent[1]) = 8

\* the response is [status] + payload + [0x91, status]
EchoResponse ==
    /\ Len(response) >= 3
    /\ SW1 = 145
    /\ response[1] = SW2

\* the payload of an echo response
EchoPayload == SubSeq(response, 2, Len(response) - 2)

\* C3 as stated: on the response [status] + payload + [0x91, status] the
\* call returns [status] + payload.
C3_RoundTrip_AsStated ==
    (CalledOpen /\ scard.hresult = SCARD_S_SUCCESS /\ EchoResponse)
    => ret = <<SW2>> \o EchoPayload

\* C3 amended: on the response [status] + payload + [0x91, status] the call
\* returns [status, status] + payload: SW2 in front of everything that
\* precedes the two status bytes, the leading status byte included.
C3_RoundTrip ==
    (CalledOpen /\ scard.hresult = SCARD_S_SUCCESS /\ EchoResponse)
    => /\ outcome = "ok"
       /\ ret = <<SW2, SW2>> \o EchoPayload
       /\ Len(ret) = Len(EchoPayload) + 2

\* an echo response with a one-byte payload was unwrapped
C3_Witness ==
    /\ CalledOpen
    /\ scard.hresult = SCARD_S_SUCCESS
    /\ EchoResponse
    /\ Len(EchoPayload) = 1
    /\ outcome = "ok"

TransceiveFailures == {"TransmitFailure", "MalformedResponse", "UnexpectedStatusWord"}

\* C4: a call on a connection that is not open fails with ChannelNotOpen and
\* transmits nothing; a call on an open connection transmits exactly once,
\* whether it succeeds or fails; the call changes nothing of the device.
C4_OneTransmit ==
    /\ (outcome # "none" /\ ~openAtCall) =>
           outcome = "ChannelNotOpen" /\ Len(sent) = 0
    /\ CalledOpen =>
           outcome \in TransceiveFailures \cup {"ok"} /\ Len(sent) = 1
    /\ outcome \in TransceiveFailures \cup {"ok"} => Len(sent) = 1
    /\ outcome = "ChannelNotOpen" => ~openAtCall

\* a call on an open connection failed in the transmit and sent one frame
C4_Witness ==
    /\ CalledOpen
    /\ outcome = "TransmitFailure"
    /\ Len(sent) = 1

\* C5: the outcome is decided by the first failing check: result code, then
\* response length, then SW1; a response is returned only if all three pass.
C5_Classification ==
    CalledOpen =>
       /\ scard.hresult # SCARD_S_SUCCESS =>
              outcome = "TransmitFailure" /\ detail = scard.hresult
       /\ (scard.hresult = SCARD_S_SUCCESS /\ Len(response) < 2) =>
              outcome = "MalformedResponse"
       /\ (scard.hresult = SCARD_S_SUCCESS /\ Len(response) >= 2 /\ SW1 # 145) =>
              outcome = "UnexpectedStatusWord" /\ detail = SW1
       /\ outcome = "ok" =>
              scard.hresult = SCARD_S_SUCCESS /\ Len(response) >= 2 /\ SW1 = 145

\* a failed transmit whose response bytes carry a wrong SW1 was classified
C5_Witness ==
    /\ CalledOpen
    /\ scard.hresult # SCARD_S_SUCCESS
    /\ Len(response) >= 2
    /\ SW1 # 145
    /\ outcome = "TransmitFailure"

----------------------------------------------------------------------------
(* Properties of the decoder, checked under SpecFS *)

\* the unsigned little-endian value of the n bytes of d at offset lo (0-based)
RECURSIVE LittleEndian(_, _, _)
LittleEndian(d, lo, n) ==
    IF n = 0 THEN 0 ELSE d[lo + 1] + 256 * LittleEndian(d, lo + 1, n - 1)

\* the buffer of the last parse call is long enough for the variant byte 0 names
LongEnough ==
    /\ fsOutcome # "none"
    /\ Len(data) >= 1
    /\ \/ data[1] \in {0, 1} /\ Len(data) >= 7
       \/ data[1] \in {3, 4} /\ Len(data) >= 13
       \/ data[1] = 2 /\ Len(data) >= 17

\* the last parse call returned, with every field of the variant read from
\* its byte span
Decoded ==
    /\ fsOutcome = "ok"
    /\ fs.file_type = data[1]
    /\ fs.encryption = data[2]
    /\ fs.permissions = PermissionsParse(<<data[3], data[4]>>)
    /\ data[1] \in {0, 1} => fs.file_size = LittleEndian(data, 4, 3)
    /\ data[1] \in {3, 4} =>
          /\ fs.file_size = LittleEndian(data, 4, 3)
          /\ fs.max_record_count = LittleEndian(data, 7, 3)
          /\ fs.record_count = LittleEndian(data, 10, 3)
          /\ fs.record_count < 16777216
    /\ data[1] = 2 =>
          /\ fs.lower_limit = LittleEndian(data, 4, 4)
          /\ fs.upper_limit = LittleEndian(data, 8, 4)
          /\ fs.limited_credit_value = LittleEndian(data, 12, 4)
          /\ fs.limited_credit_enabled = (data[17] # 0)

\* C6 as stated: every buffer long enough for its variant is decoded, each
\* field from its byte span.
C6_Decode_AsStated == LongEnough => Decoded

\* C6 amended: every buffer long enough for its variant whose byte 1 is a
\* communication-mode code is decoded, each field from its byte span.
C6_Decode == (LongEnough /\ data[2] \in {0, 1, 3}) => Decoded

\* a value file was decoded from an 18-byte buffer, limited credit enabled
C6_Witness ==
    /\ LongEnough
    /\ Len(data) = 18
    /\ data[1] = 2
    /\ fsOutcome = "ok"
    /\ fs.lower_limit = 268435464
    /\ fs.limited_credit_enabled

\* C7: a discriminant byte outside the five supported file types makes parse
\* fail with the unsupported-file-type error (NotImplementedError), which
\* reports that byte, whatever the bytes after it.
C7_UnsupportedFileType ==
    (fsOutcome # "none" /\ Len(data) >= 1 /\ data[1] \notin {0, 1, 2, 3, 4})
    => fsOutcome = "NotImplementedError" /\ fsDetail = data[1]

\* the buffer of the last parse call is shorter than its variant needs, or
\* shorter than the four-byte common header
Undersized ==
    /\ fsOutcome # "none"
    /\ \/ Len(data) < 4
       \/ data[1] \in {0, 1} /\ Len(data) < 7
       \/ data[1] \in {3, 4} /\ Len(data) < 13
       \/ data[1] = 2 /\ Len(data) < 17

\* C8: an undersized buffer makes parse fail with a bounds failure (the
\* malformed-response error: IndexError or struct.error).
C8_MalformedResponse ==
    Undersized => fsOutcome \in {"IndexError", "struct.error"}

\* C9: a parse call that fails leaves every field of the object as it was.
C9_NoPartialResult ==
    [][(parses' = parses + 1 /\ fsOutcome' # "ok") => fs' = fs]_vars

\* C10: after a parse call that returns, the object equals a fresh object
\* that parsed the same buffer, whatever was parsed on it before.
C10_FunctionOfInput ==
    fsOutcome = "ok" => fs = parse(FreshFS, data).obj

====
